---- MODULE Spec2Model ----
(***************************************************************************)
(* PyWebMonitor (src/pywebmonitor.py): the startup sequence of main(), the *)
(* supervisor main_async_monitor_urls(), the poll loop monitor_urls() and  *)
(* the recorder write_to_db() on the shared psycopg2 connection.           *)
(*                                                                         *)
(* Python values: a str is a sequence of one-character strings; an         *)
(* optional value is a sequence of length 0 (None) or 1 (the value).       *)
(***************************************************************************)
EXTENDS Integers, Sequences, FiniteSets, TLC

\* ------------------------------------------------------------------ bounds
\* Longest targets file (rows of the CSV) / longest targets list.
MaxTargets == 2

\* Longest list of raw rows passed to validate_urls called on its own.
MaxRows == 3

\* Longest interval string passed to is_valid_interval called on its own.
MaxIntervalLen == 3

\* ------------------------------------------------------- program constants
\* Default bounds of is_valid_interval.
MinInterval == 5
MaxInterval == 300

\* ------------------------------------------------------------ Python values
None == <<>>
Some(v) == <<v>>
IsNone(o) == Len(o) = 0
Val(o) == o[1]

\* str literals of the model, as character sequences.
S_url_a == <<"h", ":", "/", "/", "a">>
S_url_b == <<"h", ":", "/", "/", "b">>
S_url_bad == <<"a">>
S_10 == <<"1", "0">>
S_300 == <<"3", "0", "0">>
S_NaN == <<"x">>
S_pat_a == <<"a">>
S_pat_bad == <<"[", "a">>
S_empty == <<>>

Digits == {"0", "1", "2", "3", "4", "5", "6", "7", "8", "9"}
Letters == {"a", "b", "h", "x"}

DigitVal(c) ==
    CASE c = "0" -> 0 [] c = "1" -> 1 [] c = "2" -> 2 [] c = "3" -> 3
      [] c = "4" -> 4 [] c = "5" -> 5 [] c = "6" -> 6 [] c = "7" -> 7
      [] c = "8" -> 8 [] c = "9" -> 9

\* ------------------------------------------------------------- validation
\* Index of the first occurrence of character c in s at or after i, 0 if none.
RECURSIVE Find(_, _, _)
Find(s, c, i) ==
    IF i > Len(s) THEN 0
    ELSE IF s[i] = c THEN i
    ELSE Find(s, c, i + 1)

\* urlparse(url).scheme: the letters before the first ":" (empty when the
\* prefix is empty or holds another character).
UrlScheme(s) ==
    LET k == Find(s, ":", 1)
    IN  IF k > 1 /\ \A i \in 1..(k - 1) : s[i] \in Letters
        THEN SubSeq(s, 1, k - 1)
        ELSE <<>>

\* urlparse(url).netloc: what follows "//" after the scheme, up to the next "/".
UrlNetloc(s) ==
    LET k == IF UrlScheme(s) = <<>> THEN 0 ELSE Find(s, ":", 1)
        rest == SubSeq(s, k + 1, Len(s))
    IN  IF Len(rest) >= 2 /\ rest[1] = "/" /\ rest[2] = "/"
        THEN LET e == Find(rest, "/", 3)
             IN  SubSeq(rest, 3, IF e = 0 THEN Len(rest) ELSE e - 1)
        ELSE <<>>

\* is_valid_url: all([result.scheme, result.netloc]); urlparse(None) has both empty.
is_valid_url(url) ==
    IF IsNone(url) THEN FALSE
    ELSE UrlScheme(Val(url)) # <<>> /\ UrlNetloc(Val(url)) # <<>>

\* int(s) succeeds on an optionally signed, non-empty run of decimal digits.
IntParses(s) ==
    LET body == IF Len(s) > 0 /\ s[1] \in {"+", "-"} THEN Tail(s) ELSE s
    IN  Len(body) > 0 /\ \A i \in 1..Len(body) : body[i] \in Digits

RECURSIVE DigitsToNat(_)
DigitsToNat(s) ==
    IF Len(s) = 0 THEN 0
    ELSE 10 * DigitsToNat(SubSeq(s, 1, Len(s) - 1)) + DigitVal(s[Len(s)])

\* int(s) for a string that parses.
IntOf(s) ==
    IF Len(s) > 0 /\ s[1] = "-" THEN 0 - DigitsToNat(Tail(s))
    ELSE IF Len(s) > 0 /\ s[1] = "+" THEN DigitsToNat(Tail(s))
    ELSE DigitsToNat(s)

\* Mutant of is_valid_interval: the bounds excluded.
IntervalExclusive(interval, min_val, max_val) ==
    IF IsNone(interval) THEN "raise"
    ELSE IF ~IntParses(Val(interval)) THEN "False"
    ELSE IF min_val < IntOf(Val(interval)) /\ IntOf(Val(interval)) < max_val
         THEN "True" ELSE "False"

\* is_valid_interval: "raise" stands for the TypeError of int(None), which the
\* function does not catch; a ValueError is caught and gives False.
is_valid_interval(interval, min_val, max_val) ==
    IF IsNone(interval) THEN "raise"
    ELSE IF ~IntParses(Val(interval)) THEN "False"
    ELSE IF min_val <= IntOf(Val(interval)) /\ IntOf(Val(interval)) <= max_val
         THEN "True" ELSE "False"

\* re.compile(p) succeeds: every "[" opens a class that a later "]" closes.
RECURSIVE ReCompiles(_, _)
ReCompiles(p, i) ==
    IF i > Len(p) THEN TRUE
    ELSE IF p[i] = "["
         THEN LET e == Find(p, "]", i + 2)
              IN  e # 0 /\ ReCompiles(p, e + 1)
         ELSE ReCompiles(p, i + 1)

\* is_valid_regex: None is valid, otherwise the pattern must compile.
is_valid_regex(regex_pattern) ==
    IF IsNone(regex_pattern) THEN TRUE
    ELSE ReCompiles(Val(regex_pattern), 1)

\* One row of validate_urls' loop: "raise" (the unpacking of a row that has not
\* three fields, or int(None)), "drop", or "keep".
RowVerdict(row) ==
    IF Len(row) # 3 THEN "raise"
    ELSE IF ~is_valid_url(row[1]) THEN "drop"
    ELSE IF is_valid_interval(row[2], MinInterval, MaxInterval) = "raise" THEN "raise"
    ELSE IF is_valid_interval(row[2], MinInterval, MaxInterval) = "False" THEN "drop"
    ELSE IF ~is_valid_regex(row[3]) THEN "drop"
    ELSE "keep"

\* The validated tuple (url, int(interval), regex_pattern).
TargetOf(row) ==
    [url |-> Val(row[1]), interval |-> IntOf(Val(row[2])), regex_pattern |-> row[3]]

\* Mutant of validate_urls: the kept rows in reverse order.
RECURSIVE ValidateUrlsReversed(_)
ValidateUrlsReversed(urls_data) ==
    IF Len(urls_data) = 0 THEN Some(<<>>)
    ELSE LET v == RowVerdict(Head(urls_data))
             rest == ValidateUrlsReversed(Tail(urls_data))
         IN  IF v = "raise" \/ IsNone(rest) THEN None
             ELSE IF v = "keep" THEN Some(Val(rest) \o <<TargetOf(Head(urls_data))>>)
             ELSE rest

\* validate_urls: None when the loop raises, else Some(the kept rows, in order).
RECURSIVE validate_urls(_)
validate_urls(urls_data) ==
    IF Len(urls_data) = 0 THEN Some(<<>>)
    ELSE LET v == RowVerdict(Head(urls_data))
             rest == validate_urls(Tail(urls_data))
         IN  IF v = "raise" \/ IsNone(rest) THEN None
             ELSE IF v = "keep" THEN Some(<<TargetOf(Head(urls_data))>> \o Val(rest))
             ELSE rest

\* --------------------------------------------------------- configuration
Fields == {"host", "port", "user", "password", "dbname", "tablename"}

\* read_db_environment_variables: os.environ.get of the six DB_* variables;
\* env is the set of fields whose variable is set.
read_db_environment_variables(env) ==
    [k \in Fields |-> IF k \in env THEN Some("e") ELSE None]

\* read_config: dict(config["Database"]) of a file that parses; keys is the
\* set of keys the section holds.
read_config(keys) ==
    [k \in keys |-> Some("v")]

\* The config files: absent, unparsable (configparser.Error), parsable without
\* the section (KeyError), or a Database section holding `keys`.
ConfigFiles ==
    { [kind |-> "absent", keys |-> {}],
      [kind |-> "invalid", keys |-> {}],
      [kind |-> "nosection", keys |-> {}],
      [kind |-> "section", keys |-> Fields],
      [kind |-> "section", keys |-> Fields \ {"tablename"}] }

\* The environments: every DB_* variable set, some, or none.
Envs == {Fields, {"host", "port"}, {}}

\* Mutant of get_db_params: the environment used when the file cannot be read.
GetDbParamsFallsBack(file, env) ==
    IF file.kind = "section" THEN Some(read_config(file.keys))
    ELSE Some(read_db_environment_variables(env))

\* get_db_params: the file when it exists (None when it cannot be read), else
\* the environment.
get_db_params(file, env) ==
    IF file.kind # "absent"
    THEN IF file.kind = "section" THEN Some(read_config(file.keys)) ELSE None
    ELSE Some(read_db_environment_variables(env))

\* ------------------------------------------------------------ targets file
Row(url, interval, pattern) == <<Some(url), Some(interval), Some(pattern)>>

\* Rows csv.reader can return: fields are always str, a row may have any
\* number of fields.
CsvRows ==
    { Row(S_url_a, S_10, S_pat_a),
      Row(S_url_b, S_300, S_empty),
      Row(S_url_bad, S_10, S_pat_a),
      Row(S_url_a, S_NaN, S_pat_a),
      Row(S_url_a, S_10, S_pat_bad),
      <<Some(S_url_a)>> }

\* Rows a caller of validate_urls can pass directly: the pattern may be None.
DirectRows ==
    { <<Some(S_url_a), Some(S_10), None>>,
      Row(S_url_a, S_10, S_pat_a) }

SeqsUpTo(S, n) == UNION { [1..k -> S] : k \in 0..n }

\* The targets files: missing, not readable as CSV, or a list of rows.
UrlFiles ==
    { [kind |-> "missing", rows |-> <<>>], [kind |-> "csverror", rows |-> <<>>] }
    \cup { [kind |-> "ok", rows |-> r] : r \in SeqsUpTo(CsvRows, MaxTargets) }

\* read_urls: the rows, or None after a logged error.
read_urls(file) ==
    IF file.kind = "ok" THEN Some(file.rows) ELSE None

\* ------------------------------------------------------------- poll cycle
\* Response bodies a fetch can return.
Bodies == { <<"a">>, <<"b">> }

\* re.search(pattern, content) for a literal pattern: content holds pattern
\* as a substring (the empty pattern matches everywhere).
re_search(pattern, content) ==
    \E i \in 1..(Len(content) + 1) :
        /\ i + Len(pattern) - 1 <= Len(content)
        /\ SubSeq(content, i, i + Len(pattern) - 1) = pattern

\* monitor_urls lines 253-255: None unless regex_pattern is not None.
RegexMatch(regex_pattern, content) ==
    IF IsNone(regex_pattern) THEN None
    ELSE Some(re_search(Val(regex_pattern), content))

VARIABLES
    mainpc,          \* main(): the step it is at, or how it ended
    db_params,       \* main's db_params: None or Some(dict)
    db_connection,   \* main's db_connection: None or Some("conn")
    conn,            \* the connection's transaction state at the server
    urls_data,       \* main's urls_data: None or Some(rows)
    validated_urls,  \* main's validated_urls / the supervisor's urls
    sup,             \* main_async_monitor_urls: idle, waiting, returned, raised, cancelled
    task_args,       \* per task: the target its coroutine was created with
    pc,              \* per task: where monitor_urls is suspended or running
    exc,             \* per task: the exception that ended it, or "none"
    obs,             \* per task: the arguments of its write_to_db call in progress
    result,          \* per task: how this cycle's write_to_db call ended
    response,        \* per task: this cycle's http_status and response_time
    running,         \* the task the event loop is executing, 0 when none
    interrupted,     \* a KeyboardInterrupt was delivered during asyncio.run
    call             \* a function called on its own: None, or its name, arguments and result

vars == <<mainpc, db_params, db_connection, conn, urls_data, validated_urls,
          sup, task_args, pc, exc, obs, result, response, running, interrupted,
          call>>

mainVars == <<mainpc, db_params, db_connection, urls_data, validated_urls>>
taskVars == <<task_args, pc, exc, obs, result, response, running>>

Tasks == DOMAIN task_args

NoTasks ==
    /\ sup = "idle"
    /\ task_args = <<>>
    /\ pc = <<>> /\ exc = <<>> /\ obs = <<>> /\ result = <<>> /\ response = <<>>
    /\ running = 0
    /\ interrupted = FALSE

\* The process as main() is entered.
Init ==
    /\ mainpc = "get_db_params"
    /\ db_params = None
    /\ db_connection = None
    /\ conn = "none"
    /\ urls_data = None
    /\ validated_urls = <<>>
    /\ NoTasks
    /\ call = None

\* ------------------------------------------------------------------ main()
\* Lines 292-294: db_params = get_db_params(args.config); sys.exit() on None.
AfterGetDbParams(params) ==
    IF IsNone(params) THEN "exited" ELSE "connect"

GetDbParams ==
    /\ mainpc = "get_db_params"
    /\ \E file \in ConfigFiles, env \in Envs :
          /\ db_params' = get_db_params(file, env)
          /\ mainpc' = AfterGetDbParams(db_params')
    /\ UNCHANGED <<db_connection, conn, urls_data, validated_urls, sup,
                   taskVars, interrupted>>
    /\ UNCHANGED call

\* The keys connect_to_database reads from db_params (lines 160-164).
ConnectKeys == {"host", "port", "user", "password", "dbname"}

\* Mutant of AfterConnect: main without the `if db_connection is None` exit.
AfterConnectUnchecked(connection) == "create_table"

\* Lines 298-300: sys.exit() when connect_to_database returned None.
AfterConnect(connection) ==
    IF IsNone(connection) THEN "exited" ELSE "create_table"

\* connect_to_database: a KeyError on a missing key is not caught and ends the
\* process; psycopg2.Error is caught and gives None. None values reach
\* psycopg2.connect as they are, which then takes its defaults, so the
\* connection can succeed or fail whatever the values.
Connect ==
    /\ mainpc = "connect"
    /\ IF ~(ConnectKeys \subseteq DOMAIN Val(db_params))
       THEN /\ mainpc' = "crashed"
            /\ UNCHANGED <<db_connection, conn>>
       ELSE \E ok \in BOOLEAN :
              /\ db_connection' = IF ok THEN Some("conn") ELSE None
              /\ conn' = IF ok THEN "idle" ELSE "none"
              /\ mainpc' = AfterConnect(db_connection')
    /\ UNCHANGED <<db_params, urls_data, validated_urls, sup, taskVars, interrupted>>
    /\ UNCHANGED call

\* Line 304 and create_table_if_not_exists: db_params["tablename"] raises
\* KeyError when the key is missing; a psycopg2.Error of the CREATE TABLE or of
\* the commit is logged and main goes on, with the transaction left aborted
\* (the statement failed) or the connection closed (it was lost).
CreateTable ==
    /\ mainpc = "create_table"
    /\ IF "tablename" \notin DOMAIN Val(db_params)
       THEN /\ mainpc' = "crashed"
            /\ UNCHANGED conn
       ELSE /\ conn' \in {"idle", "aborted", "closed"}
            /\ mainpc' = "read_urls"
    /\ UNCHANGED <<db_params, db_connection, urls_data, validated_urls, sup,
                   taskVars, interrupted>>
    /\ UNCHANGED call

\* Lines 312-313: urls_data = read_urls(args.urls), not checked for None.
ReadUrls ==
    /\ mainpc = "read_urls"
    /\ \E file \in UrlFiles : urls_data' = read_urls(file)
    /\ mainpc' = "validate"
    /\ UNCHANGED <<db_params, db_connection, conn, validated_urls, sup,
                   taskVars, interrupted>>
    /\ UNCHANGED call

\* Lines 319-321: sys.exit() when no target validated.
AfterValidate(validated) ==
    IF Len(validated) = 0 THEN "exited" ELSE "run"

\* Lines 316-321: validate_urls(None) raises TypeError, a malformed row raises
\* ValueError; neither is caught.
Validate ==
    /\ mainpc = "validate"
    /\ IF IsNone(urls_data) \/ IsNone(validate_urls(Val(urls_data)))
       THEN /\ mainpc' = "crashed"
            /\ UNCHANGED validated_urls
       ELSE /\ validated_urls' = Val(validate_urls(Val(urls_data)))
            /\ mainpc' = AfterValidate(validated_urls')
    /\ UNCHANGED <<db_params, db_connection, conn, urls_data, sup, taskVars,
                   interrupted>>
    /\ UNCHANGED call

\* ---------------------------------------------- main_async_monitor_urls()
\* Mutant of SpawnedTasks: targets collected by value, so that a target equal
\* to an earlier one gets no task of its own.
RECURSIVE Dedup(_)
Dedup(urls) ==
    IF Len(urls) = 0 THEN <<>>
    ELSE LET front == Dedup(SubSeq(urls, 1, Len(urls) - 1))
             last == urls[Len(urls)]
         IN  IF \E i \in 1..Len(front) : front[i] = last
             THEN front ELSE Append(front, last)

SpawnedTasksDedup(urls) == Dedup(urls)

\* Lines 278-281: one monitor_urls coroutine per element of urls, in order,
\* created with that element's url, regex_pattern and interval.
SpawnedTasks(urls) ==
    [i \in 1..Len(urls) |-> urls[i]]

\* Mutant of GatherOf: a supervisor that waits whatever the number of tasks.
GatherAlwaysWaits(n) == "waiting"

\* Line 282: gather() of no coroutine is already done, of some it waits.
GatherOf(n) ==
    IF n = 0 THEN "returned" ELSE "waiting"

\* The target task t was created with.
TargetOfTask(t) == task_args[t]

\* Lines 326-331 and 278-282: asyncio.run starts the supervisor, which creates
\* the tasks and awaits gather.
Spawn ==
    /\ mainpc = "run"
    /\ sup = "idle"
    /\ task_args' = SpawnedTasks(validated_urls)
    /\ pc' = [i \in DOMAIN task_args' |-> "spawned"]
    /\ exc' = [i \in DOMAIN task_args' |-> "none"]
    /\ obs' = [i \in DOMAIN task_args' |-> None]
    /\ result' = [i \in DOMAIN task_args' |-> None]
    /\ response' = [i \in DOMAIN task_args' |-> None]
    /\ sup' = GatherOf(Len(task_args'))
    /\ UNCHANGED <<mainVars, conn, running, interrupted>>
    /\ UNCHANGED call

\* Mutant of CanResume: a task resumed while another is inside write_to_db.
CanResumeInsideWrite(t) ==
    /\ mainpc = "run"
    /\ sup = "waiting"
    /\ t \in Tasks

\* The event loop can resume a suspended task.
CanResume(t) ==
    /\ mainpc = "run"
    /\ sup = "waiting"
    /\ running = 0
    /\ t \in Tasks

\* ----------------------------------------------------------- monitor_urls()
\* Lines 237-242: the top of the loop opens a session and awaits session.get.
LoopTop == "fetching"

\* monitor_urls has no try/except: an exception raised inside a cycle leaves
\* the coroutine, and the task is done with that exception.
Raise(t, e) ==
    /\ pc' = [pc EXCEPT ![t] = "done"]
    /\ exc' = [exc EXCEPT ![t] = e]
    /\ obs' = [obs EXCEPT ![t] = None]
    /\ result' = [result EXCEPT ![t] = None]
    /\ response' = [response EXCEPT ![t] = None]

\* The status and response time a fetch can give (lines 243-246).
Responses ==
    { [http_status |-> 200, response_time |-> 1],
      [http_status |-> 500, response_time |-> 2] }

\* The first step of a task: it runs to its first await, the fetch.
Start(t) ==
    /\ CanResume(t)
    /\ pc[t] = "spawned"
    /\ pc' = [pc EXCEPT ![t] = LoopTop]
    /\ UNCHANGED <<mainVars, conn, sup, task_args, exc, obs, result, response, running,
                   interrupted>>
    /\ UNCHANGED call

\* Line 242: the response headers arrive; lines 243-247 run to await
\* response.text().
FetchResponds(t) ==
    /\ CanResume(t)
    /\ pc[t] = "fetching"
    /\ pc' = [pc EXCEPT ![t] = "reading"]
    /\ \E r \in Responses : response' = [response EXCEPT ![t] = Some(r)]
    /\ UNCHANGED <<mainVars, conn, sup, task_args, exc, obs, result, running, interrupted>>
    /\ UNCHANGED call

\* Line 242: session.get raises aiohttp.ClientError (DNS, connect, TLS, ...).
FetchFails(t) ==
    /\ CanResume(t)
    /\ pc[t] = "fetching"
    /\ Raise(t, "ClientError")
    /\ UNCHANGED <<mainVars, conn, sup, task_args, running, interrupted>>
    /\ UNCHANGED call

\* Mutant of Observation: the status of a good response whatever was fetched.
ObservationStaleStatus(t, content) ==
    [http_status |-> 200,
     regex_match |-> RegexMatch(TargetOfTask(t).regex_pattern, content),
     response_time |-> Val(response[t]).response_time,
     content |-> content]

\* Lines 253-265: the arguments monitor_urls passes to write_to_db: the
\* status and response time of this cycle's response, the body just read and
\* the result of the search.
Observation(t, content) ==
    [http_status |-> Val(response[t]).http_status,
     regex_match |-> RegexMatch(TargetOfTask(t).regex_pattern, content),
     response_time |-> Val(response[t]).response_time,
     content |-> content]

\* Lines 247-257: the body is read, the pattern is searched and write_to_db is
\* called, with no await in between: the task keeps the event loop.
BodyArrives(t) ==
    /\ CanResume(t)
    /\ pc[t] = "reading"
    /\ \E content \in Bodies :
          obs' = [obs EXCEPT ![t] = Some(Observation(t, content))]
    /\ pc' = [pc EXCEPT ![t] = "recording"]
    /\ running' = t
    /\ UNCHANGED <<mainVars, conn, sup, task_args, exc, result, response, interrupted>>
    /\ UNCHANGED call

\* Line 247: response.text() raises UnicodeDecodeError (the body is not in the
\* declared charset) or aiohttp.ClientError (the transfer broke).
BodyFails(t) ==
    /\ CanResume(t)
    /\ pc[t] = "reading"
    /\ \E e \in {"UnicodeDecodeError", "ClientError"} : Raise(t, e)
    /\ UNCHANGED <<mainVars, conn, sup, task_args, running, interrupted>>
    /\ UNCHANGED call

\* Mutant of CancelReaches: a cancellation that is not delivered to a task
\* suspended in asyncio.sleep.
CancelMissesSleeping(p) == p \notin {"done", "sleeping"}

\* Cancellation is thrown into a task at the await it is suspended on (the
\* fetch, the body read, the close, the sleep) or before its first step; a
\* task that is done is left alone.
CancelReaches(p) == p # "done"

\* Every task but `except` is cancelled.
CancelOthers(except) ==
    /\ pc' = [u \in Tasks |->
                IF u # except /\ CancelReaches(pc[u]) THEN "done" ELSE pc[u]]
    /\ exc' = [u \in Tasks |->
                IF u # except /\ CancelReaches(pc[u]) THEN "CancelledError" ELSE exc[u]]
    /\ obs' = [u \in Tasks |->
                IF u # except /\ CancelReaches(pc[u]) THEN None ELSE obs[u]]
    /\ result' = [u \in Tasks |->
                IF u # except /\ CancelReaches(pc[u]) THEN None ELSE result[u]]
    /\ response' = [u \in Tasks |->
                IF u # except /\ CancelReaches(pc[u]) THEN None ELSE response[u]]

\* Task t leaves monitor_urls on exception e while a cancellation of the
\* supervisor is pending: every other task is cancelled with it.
EndAll(t, e) ==
    /\ pc' = [u \in Tasks |-> IF u = t \/ CancelReaches(pc[u]) THEN "done" ELSE pc[u]]
    /\ exc' = [u \in Tasks |->
                IF u = t THEN e
                ELSE IF CancelReaches(pc[u]) THEN "CancelledError" ELSE exc[u]]
    /\ obs' = [u \in Tasks |-> IF u = t \/ CancelReaches(pc[u]) THEN None ELSE obs[u]]
    /\ result' = [u \in Tasks |->
                IF u = t \/ CancelReaches(pc[u]) THEN None ELSE result[u]]
    /\ response' = [u \in Tasks |->
                IF u = t \/ CancelReaches(pc[u]) THEN None ELSE response[u]]

\* Lines 332-333: main logs the KeyboardInterrupt and falls off its end.
OnKeyboardInterrupt == "finished"

\* -------------------------------------------------------------- write_to_db()
\* Lines 221-228: after the except clause the function falls off its end, so
\* the caller gets None whether the write failed (err # "none") or not.
write_to_db_return(err) == "None"

\* Mutant of Caught: write_to_db without its except clause.
CaughtNothing(err) == FALSE

\* Lines 221-222: `except psycopg2.Error` catches the database errors and
\* nothing else.
Caught(err) ==
    err \in {"InterfaceError", "OperationalError", "DataError",
             "InFailedSqlTransaction"}

\* The try statement of write_to_db ends with err ("none": no exception). A
\* caught error is logged and the function returns to monitor_urls, which
\* leaves the two `async with` blocks (lines 238, 242): the next await, where
\* a cancellation requested while the task held the event loop is delivered.
\* Any other exception leaves write_to_db and monitor_urls.
WriteReturns(t, acceptable, err) ==
    /\ running' = 0
    /\ IF interrupted
       THEN /\ EndAll(t, IF err # "none" /\ ~Caught(err) THEN err ELSE "CancelledError")
            /\ sup' = "cancelled"
            /\ mainpc' = OnKeyboardInterrupt
       ELSE IF err # "none" /\ ~Caught(err)
       THEN /\ Raise(t, err)
            /\ UNCHANGED <<sup, mainpc>>
       ELSE /\ pc' = [pc EXCEPT ![t] = "closing"]
            /\ result' = [result EXCEPT ![t] =
                            Some([acceptable |-> acceptable, err |-> err,
                                  ret |-> write_to_db_return(err)])]
            /\ obs' = [obs EXCEPT ![t] = None]
            /\ UNCHANGED <<exc, response, sup, mainpc>>

\* Lines 207-219: cursor() raises InterfaceError on a closed connection;
\* sql.Identifier(tablename) raises TypeError when tablename is None, which
\* `except psycopg2.Error` does not catch; execute raises InFailedSqlTransaction
\* while an earlier failed statement's transaction is still open (nobody rolled
\* it back), OperationalError when the connection is lost, DataError and the
\* like when the store rejects the row. On success the row is inserted in an
\* open transaction and the commit follows.
WriteInsert(t) ==
    /\ running = t
    /\ pc[t] = "recording"
    /\ \E acceptable \in BOOLEAN, lost \in BOOLEAN :
         IF conn = "closed"
         THEN /\ WriteReturns(t, acceptable, "InterfaceError")
              /\ UNCHANGED conn
         ELSE IF IsNone(Val(db_params)["tablename"])
         THEN /\ WriteReturns(t, acceptable, "TypeError")
              /\ UNCHANGED conn
         ELSE IF conn = "aborted"
         THEN /\ WriteReturns(t, acceptable, "InFailedSqlTransaction")
              /\ UNCHANGED conn
         ELSE IF lost
         THEN /\ WriteReturns(t, acceptable, "OperationalError")
              /\ conn' = "closed"
         ELSE IF ~acceptable
         THEN /\ WriteReturns(t, acceptable, "DataError")
              /\ conn' = "aborted"
         ELSE /\ conn' = "intrans"
              /\ pc' = [pc EXCEPT ![t] = "committing"]
              /\ UNCHANGED <<exc, obs, result, response, running, sup, mainpc>>
    /\ UNCHANGED <<db_params, db_connection, urls_data, validated_urls, task_args,
                   interrupted>>
    /\ UNCHANGED call

\* Line 220: database_connection.commit() ends the transaction, or raises
\* OperationalError when the connection is lost.
WriteCommit(t) ==
    /\ running = t
    /\ pc[t] = "committing"
    /\ \E lost \in BOOLEAN :
         IF lost
         THEN /\ WriteReturns(t, TRUE, "OperationalError")
              /\ conn' = "closed"
         ELSE /\ WriteReturns(t, TRUE, "none")
              /\ conn' = "idle"
    /\ UNCHANGED <<db_params, db_connection, urls_data, validated_urls, task_args,
                   interrupted>>
    /\ UNCHANGED call

\* Lines 238-242: the `async with` blocks are left; line 272 awaits the sleep.
Closed(t) ==
    /\ CanResume(t)
    /\ pc[t] = "closing"
    /\ pc' = [pc EXCEPT ![t] = "sleeping"]
    /\ response' = [response EXCEPT ![t] = None]
    /\ UNCHANGED <<mainVars, conn, sup, task_args, exc, obs, result, running, interrupted>>
    /\ UNCHANGED call

\* Lines 272-273 and 237: the sleep ends and the next cycle begins; the
\* previous cycle's result is dead.
Wake(t) ==
    /\ CanResume(t)
    /\ pc[t] = "sleeping"
    /\ pc' = [pc EXCEPT ![t] = LoopTop]
    /\ obs' = [obs EXCEPT ![t] = None]
    /\ result' = [result EXCEPT ![t] = None]
    /\ response' = [response EXCEPT ![t] = None]
    /\ UNCHANGED <<mainVars, conn, sup, task_args, exc, running, interrupted>>
    /\ UNCHANGED call

\* ------------------------------------------------- failure and cancellation
\* The exceptions that end a task other than by cancellation.
Failures == {"ClientError", "UnicodeDecodeError", "TypeError"}

\* Line 282 and lines 326-333: gather (without return_exceptions) hands the
\* first task exception to the supervisor, which raises it; asyncio.run
\* cancels the tasks that are left and re-raises; main catches only
\* KeyboardInterrupt, so the process ends on the exception.
SupervisorRaises ==
    /\ mainpc = "run"
    /\ sup = "waiting"
    /\ running = 0
    /\ \E t \in Tasks : pc[t] = "done" /\ exc[t] \in Failures
    /\ sup' = "raised"
    /\ CancelOthers(0)
    /\ mainpc' = "crashed"
    /\ UNCHANGED <<db_params, db_connection, conn, urls_data, validated_urls,
                   task_args, running, interrupted>>
    /\ UNCHANGED call

\* SIGINT while the event loop is between task steps: asyncio.run cancels the
\* supervisor and with it every task, and KeyboardInterrupt reaches main.
InterruptIdle ==
    /\ mainpc = "run"
    /\ sup = "waiting"
    /\ running = 0
    /\ ~interrupted
    /\ interrupted' = TRUE
    /\ CancelOthers(0)
    /\ sup' = "cancelled"
    /\ mainpc' = OnKeyboardInterrupt
    /\ UNCHANGED <<db_params, db_connection, conn, urls_data, validated_urls,
                   task_args, running>>
    /\ UNCHANGED call

\* Mutant of DeliveredAt: a cancellation thrown into a task wherever it is.
DeliveredAnywhere(p) == TRUE

\* A cancellation requested for a task is thrown into it at an await only:
\* write_to_db (lines 196-228) has none, so a task inside it runs on.
DeliveredAt(p) == p \notin {"recording", "committing"}

\* SIGINT while task t is inside write_to_db, where asyncio.run's handler
\* requests the cancellation of the supervisor (Python 3.11 and later): t runs
\* on to its next await, and the tasks are cancelled when it gets there.
InterruptDeferred(t) ==
    /\ mainpc = "run"
    /\ sup = "waiting"
    /\ running = t
    /\ t \in Tasks
    /\ ~interrupted
    /\ interrupted' = TRUE
    /\ IF DeliveredAt(pc[t])
       THEN /\ EndAll(t, "CancelledError")
            /\ running' = 0
            /\ sup' = "cancelled"
            /\ mainpc' = OnKeyboardInterrupt
       ELSE UNCHANGED <<mainpc, sup, pc, exc, obs, result, response, running>>
    /\ UNCHANGED <<db_params, db_connection, conn, urls_data, validated_urls,
                   task_args>>
    /\ UNCHANGED call

\* SIGINT while task t is inside write_to_db, where KeyboardInterrupt is raised
\* at the interrupted instruction (Python 3.10): `except psycopg2.Error` does
\* not catch it, t ends with it, asyncio.run cancels the rest.
InterruptImmediate(t) ==
    /\ mainpc = "run"
    /\ sup = "waiting"
    /\ running = t
    /\ t \in Tasks
    /\ ~interrupted
    /\ interrupted' = TRUE
    /\ pc' = [u \in Tasks |-> "done"]
    /\ exc' = [u \in Tasks |->
                IF u = t THEN "KeyboardInterrupt"
                ELSE IF pc[u] = "done" THEN exc[u] ELSE "CancelledError"]
    /\ obs' = [u \in Tasks |-> None]
    /\ result' = [u \in Tasks |-> None]
    /\ response' = [u \in Tasks |-> None]
    /\ running' = 0
    /\ sup' = "cancelled"
    /\ mainpc' = OnKeyboardInterrupt
    /\ UNCHANGED <<db_params, db_connection, conn, urls_data, validated_urls,
                   task_args>>
    /\ UNCHANGED call

\* Lines 326-331: asyncio.run returns when the supervisor returned, and main
\* falls off its end.
RunReturns ==
    /\ mainpc = "run"
    /\ sup = "returned"
    /\ mainpc' = "finished"
    /\ UNCHANGED <<db_params, db_connection, conn, urls_data, validated_urls,
                   sup, taskVars, interrupted>>
    /\ UNCHANGED call

\* -------------------------------------------- functions called on their own
\* The characters of the interval strings.
IntervalChars == {"0", "3", "5", "-", "+", "x"}

\* The bounds passed to is_valid_interval, min_val <= max_val.
MinVals == {0, MinInterval}
MaxVals == {MinInterval, MaxInterval}

\* The raw rows passed to validate_urls: those of a CSV file, with an empty
\* interval field too, and rows holding None.
RawRows ==
    CsvRows \cup DirectRows
      \cup { Row(S_url_a, S_empty, S_pat_a), <<Some(S_url_a), None, None>> }

\* is_valid_interval(s, min_val, max_val) on a str.
CallIsValidInterval ==
    /\ IsNone(call)
    /\ \E s \in SeqsUpTo(IntervalChars, MaxIntervalLen), lo \in MinVals, hi \in MaxVals :
          call' = Some([fn |-> "is_valid_interval",
                        args |-> <<s, lo, hi>>,
                        out |-> is_valid_interval(Some(s), lo, hi)])
    /\ UNCHANGED <<mainVars, conn, sup, taskVars, interrupted>>

\* validate_urls(urls_data) on a list of raw rows.
CallValidateUrls ==
    /\ IsNone(call)
    /\ \E rows \in SeqsUpTo(RawRows, MaxRows) :
          call' = Some([fn |-> "validate_urls",
                        args |-> <<rows>>,
                        out |-> validate_urls(rows)])
    /\ UNCHANGED <<mainVars, conn, sup, taskVars, interrupted>>

\* get_db_params(config_file) in an environment.
CallGetDbParams ==
    /\ IsNone(call)
    /\ \E file \in ConfigFiles, env \in Envs :
          call' = Some([fn |-> "get_db_params",
                        args |-> <<file, env>>,
                        out |-> get_db_params(file, env)])
    /\ UNCHANGED <<mainVars, conn, sup, taskVars, interrupted>>

\* ------------------------------------------------------------ specifications
TaskIds == 1..MaxTargets

MainNext ==
    \/ GetDbParams
    \/ Connect
    \/ CreateTable
    \/ ReadUrls
    \/ Validate

PollNext ==
    \/ Spawn
    \/ \E t \in TaskIds : Start(t)
    \/ \E t \in TaskIds : FetchResponds(t)
    \/ \E t \in TaskIds : FetchFails(t)
    \/ \E t \in TaskIds : BodyArrives(t)
    \/ \E t \in TaskIds : BodyFails(t)
    \/ \E t \in TaskIds : WriteInsert(t)
    \/ \E t \in TaskIds : WriteCommit(t)
    \/ \E t \in TaskIds : Closed(t)
    \/ \E t \in TaskIds : Wake(t)
    \/ SupervisorRaises
    \/ InterruptIdle
    \/ \E t \in TaskIds : InterruptDeferred(t)
    \/ \E t \in TaskIds : InterruptImmediate(t)

Next == MainNext \/ PollNext

\* The program, from the entry of main().
Spec == Init /\ [][Next]_vars

\* The supervisor called directly (asyncio.run(main_async_monitor_urls(urls,
\* connection, tablename))) with the result of validate_urls on any rows,
\* the empty list included, on a fresh connection.
InitSup ==
    /\ mainpc = "run"
    /\ db_params = Some(read_config(Fields))
    /\ db_connection = Some("conn")
    /\ conn = "idle"
    /\ \E rows \in SeqsUpTo(DirectRows, MaxTargets) :
          /\ urls_data = Some(rows)
          /\ validated_urls = Val(validate_urls(rows))
    /\ NoTasks
    /\ call = None

NextSup == PollNext \/ RunReturns

SpecSup == InitSup /\ [][NextSup]_vars

NextPure ==
    \/ CallIsValidInterval
    \/ CallValidateUrls
    \/ CallGetDbParams

\* The validation and configuration functions: one call of one of them.
SpecPure == Init /\ [][NextPure]_vars

\* ==================================================================== claims
HasResult(t) == ~IsNone(result[t])
WriteFailed(t) == HasResult(t) /\ Val(result[t]).err # "none"

\* C1 (stated as claimed; the code violates it): with two or more targets, a
\* fetch, body-decoding or recorder failure in one task never cancels another
\* task and never makes the supervisor return: unless an interrupt was
\* delivered, no other task ends cancelled and the supervisor keeps waiting.
C1_FaultIsolation ==
    \A t \in Tasks :
        Len(task_args) >= 2 /\ (exc[t] \in Failures \/ WriteFailed(t)) /\ ~interrupted
            => /\ sup = "waiting"
               /\ \A u \in Tasks \ {t} : exc[u] # "CancelledError"

\* C2 (stated as claimed; the code violates it): a failure of session.get or
\* of response.text() never terminates the task it happens in.
C2_FetchFailureNonFatal ==
    \A t \in Tasks :
        ~(pc[t] = "done" /\ exc[t] \in {"ClientError", "UnicodeDecodeError"})

C4_InterruptCancelsAll ==
    /\ interrupted =>
          IF running = 0
          THEN /\ \A t \in Tasks : pc[t] = "done"
               /\ sup = "cancelled"
               /\ mainpc = "finished"
          ELSE pc[running] \in {"recording", "committing"}
    /\ Len(task_args) > 0 /\ (sup \in {"returned", "cancelled"} \/ mainpc = "finished")
          => interrupted

\* C4 witness: an interrupt was delivered with two tasks spawned, both ended
\* cancelled, and main finished.
C4_Witness ==
    /\ interrupted
    /\ mainpc = "finished"
    /\ Len(task_args) >= 2
    /\ \A t \in Tasks : pc[t] = "done" /\ exc[t] = "CancelledError"

\* C5: the supervisor creates exactly one task per element of the targets
\* list, in order and with that element's values, duplicates included; the
\* first step of every task is its fetch, a task reaches its sleep only from
\* the end of a cycle, and a spawned task can take its first step whenever the
\* event loop is free, whatever the other tasks have done.
C5_OneTaskPerTarget ==
    /\ [](sup # "idle" =>
             /\ task_args = validated_urls
             /\ DOMAIN pc = 1..Len(validated_urls))
    /\ [](\A t \in Tasks :
             pc[t] = "spawned" /\ mainpc = "run" /\ sup = "waiting" /\ running = 0
                 => ENABLED Start(t))
    /\ [][\A t \in Tasks :
             /\ pc[t] = "spawned" /\ pc'[t] \notin {"spawned", "done"}
                    => pc'[t] = "fetching"
             /\ pc'[t] = "sleeping" => pc[t] \in {"sleeping", "closing"}]_vars

\* C5 witness: two tasks for two equal targets; the second has issued its
\* first fetch while the first has not taken a step.
C5_Witness ==
    /\ Len(task_args) = 2
    /\ task_args[1] = task_args[2]
    /\ pc[1] = "spawned"
    /\ pc[2] = "fetching"

\* C6: with an empty targets list the supervisor returns at once: it is idle
\* or has returned, no task exists, no task step was taken and the connection
\* was not used.
C6_EmptyTargetsReturn ==
    validated_urls = <<>> =>
        /\ sup \in {"idle", "returned"}
        /\ task_args = <<>> /\ pc = <<>>
        /\ running = 0
        /\ conn = "idle"
        /\ ~interrupted

\* C6 witness: the supervisor has returned on the empty list and asyncio.run
\* with it.
C6_Witness ==
    /\ validated_urls = <<>>
    /\ sup = "returned"
    /\ mainpc = "finished"

PatternAbsent(p) == IsNone(p) \/ Val(p) = <<>>

\* C7 (stated as claimed; the code violates it): every observation passed to
\* write_to_db has regex_match None when the target's pattern is absent (None
\* or empty) and the boolean search result when it is present.
C7_RegexMatchIffPattern ==
    \A t \in Tasks :
        ~IsNone(obs[t]) =>
            LET p == TargetOfTask(t).regex_pattern
                o == Val(obs[t])
            IN  IF PatternAbsent(p) THEN o.regex_match = None
                ELSE o.regex_match = Some(re_search(Val(p), o.content))

\* C8 (stated as claimed; the code violates it): the outcome of a write_to_db
\* call depends on that call alone: a call whose row the store accepts, made
\* on a connection that is up, ends with its row committed, whatever earlier
\* calls did.
C8_WriteSelfContained ==
    \A t \in Tasks :
        /\ HasResult(t)
        /\ Val(result[t]).acceptable
        /\ Val(result[t]).err \notin {"OperationalError", "InterfaceError"}
        => Val(result[t]).err = "none"

\* C9 (stated as claimed; the code violates it): no exception leaves
\* write_to_db, and the value it returns after a failed write differs from
\* the value it returns after a successful one.
C9_RecorderReportsOutcome ==
    \A t \in Tasks :
        /\ exc[t] \notin {"InterfaceError", "OperationalError", "DataError",
                          "InFailedSqlTransaction", "TypeError"}
        /\ WriteFailed(t) => Val(result[t]).ret # write_to_db_return("none")

StartupFailed ==
    \/ mainpc # "get_db_params" /\ IsNone(db_params)
    \/ mainpc \notin {"get_db_params", "connect"} /\ IsNone(db_connection)
    \/ mainpc \notin {"get_db_params", "connect", "create_table", "read_urls"}
          /\ IsNone(urls_data)
    \/ mainpc \notin {"get_db_params", "connect", "create_table", "read_urls",
                      "validate"}
          /\ Len(validated_urls) = 0

\* C10: when get_db_params gives None, the connection fails, the targets file
\* cannot be read or no target validates, main ends (sys.exit, or the
\* uncaught TypeError of validate_urls(None), raised by main's next step)
\* with no task spawned; tasks exist only after all four steps succeeded.
C10_StartupErrorsFatal ==
    /\ StartupFailed =>
          /\ mainpc \in {"exited", "crashed"}
                \/ (mainpc = "validate" /\ IsNone(urls_data))
          /\ sup = "idle" /\ task_args = <<>> /\ pc = <<>>
    /\ (sup # "idle" \/ pc # <<>>) =>
          /\ ~IsNone(db_params) /\ ~IsNone(db_connection)
          /\ ~IsNone(urls_data) /\ Len(validated_urls) > 0

\* C10 witness: main has exited because no target validated, after the
\* parameters, the connection and the targets file were all obtained.
C10_Witness ==
    /\ mainpc = "exited"
    /\ ~IsNone(db_params) /\ ~IsNone(db_connection) /\ ~IsNone(urls_data)
    /\ Len(Val(urls_data)) > 0
    /\ validated_urls = <<>>

\* C11 (stated as claimed; the code violates it): once main has got its
\* parameters and gone past the call of connect_to_database, all six fields
\* were present and not None.
C11_FieldsCheckedBeforeConnect ==
    mainpc \notin {"get_db_params", "connect"} /\ ~IsNone(db_params)
        => \A k \in Fields :
              /\ k \in DOMAIN Val(db_params)
              /\ ~IsNone(Val(db_params)[k])

Called(fn) == ~IsNone(call) /\ Val(call).fn = fn

\* C12 (stated as claimed; the code violates it): validate_urls returns
\* normally on every list of raw rows.
C12_ValidationNeverRaises ==
    Called("validate_urls") => ~IsNone(Val(call).out)

StringTriple(row) ==
    Len(row) = 3 /\ \A i \in 1..3 : ~IsNone(row[i])

RowValid(row) ==
    /\ is_valid_url(row[1])
    /\ is_valid_interval(row[2], MinInterval, MaxInterval) = "True"
    /\ is_valid_regex(row[3])

\* C13: on a list of (url, interval, pattern) string triples validate_urls
\* returns, in input order, exactly the rows for which is_valid_url,
\* is_valid_interval and is_valid_regex hold, each with its url and pattern
\* unchanged and its interval the integer the string denotes, within [5, 300].
C13_OrderPreservingFilter ==
    Called("validate_urls")
      /\ (\A i \in 1..Len(Val(call).args[1]) : StringTriple(Val(call).args[1][i]))
    => /\ ~IsNone(Val(call).out)
       /\ LET kept == SelectSeq(Val(call).args[1], RowValid)
              validated == Val(Val(call).out)
          IN  /\ Len(validated) = Len(kept)
              /\ \A j \in 1..Len(kept) :
                    /\ validated[j].url = Val(kept[j][1])
                    /\ validated[j].regex_pattern = kept[j][3]
                    /\ validated[j].interval = IntOf(Val(kept[j][2]))
                    /\ validated[j].interval \in MinInterval..MaxInterval

\* C13 witness: three string triples were passed, the second was dropped and
\* the two others returned in their order, with the intervals 10 and 300.
C13_Witness ==
    /\ Called("validate_urls")
    /\ Val(call).args[1] = << Row(S_url_a, S_10, S_pat_a),
                              Row(S_url_a, S_NaN, S_pat_a),
                              Row(S_url_b, S_300, S_empty) >>
    /\ ~IsNone(Val(call).out)
    /\ Len(Val(Val(call).out)) = 2
    /\ Val(Val(call).out)[1].interval = 10
    /\ Val(Val(call).out)[2].interval = 300

\* The string s denotes the integer n.
Denotes(s, n) == IntParses(s) /\ IntOf(s) = n

\* C14: for bounds min_val <= max_val and a string s, is_valid_interval does
\* not raise, and returns True exactly when s denotes an integer n with
\* min_val <= n <= max_val.
C14_IntervalInclusiveTotal ==
    Called("is_valid_interval") /\ Val(call).args[2] <= Val(call).args[3]
    => /\ Val(call).out \in {"True", "False"}
       /\ Val(call).out = "True"
            <=> \E n \in Val(call).args[2]..Val(call).args[3] :
                    Denotes(Val(call).args[1], n)

\* C14 witness: the string "300" was checked against the bounds 5 and 300 and
\* found valid.
C14_Witness ==
    /\ Called("is_valid_interval")
    /\ Val(call).args = <<S_300, MinInterval, MaxInterval>>
    /\ Val(call).out = "True"

\* C15: get_db_params gives exactly the pairs of the Database section when the
\* file has one; None, whatever the environment holds, when the file exists
\* without a readable section; and when the file is absent the six DB_*
\* variables, None for each that is unset.
C15_ConfigSourceSelection ==
    Called("get_db_params") =>
        LET file == Val(call).args[1]
            env == Val(call).args[2]
            out == Val(call).out
        IN  /\ file.kind = "section" =>
                  /\ ~IsNone(out)
                  /\ DOMAIN Val(out) = file.keys
                  /\ \A k \in file.keys : Val(out)[k] = Some("v")
            /\ file.kind \in {"invalid", "nosection"} => IsNone(out)
            /\ file.kind = "absent" =>
                  /\ ~IsNone(out)
                  /\ DOMAIN Val(out) = Fields
                  /\ \A k \in Fields :
                        Val(out)[k] = IF k \in env THEN Some("e") ELSE None

\* C15 witness: the file could not be parsed while every DB_* variable was
\* set, and the result was None.
C15_Witness ==
    /\ Called("get_db_params")
    /\ Val(call).args[1].kind = "invalid"
    /\ Val(call).args[2] = Fields
    /\ IsNone(Val(call).out)

\* C16 (stated as claimed; the code violates it): a task ends only by a
\* cancellation or an interrupt.
C16_NoTerminalState ==
    \A t \in Tasks :
        pc[t] = "done" => exc[t] \in {"CancelledError", "KeyboardInterrupt"}

\* C18: a task is inside write_to_db exactly when it holds an observation,
\* whose status and response time are those of this cycle's response, still
\* open; an observation arises only when the body of that response has been
\* read and replaces none, write_to_db is entered only from the read of a
\* body, and its result is recorded only from inside it, once.
C18_ObservationPerFetch ==
    /\ [](\A t \in Tasks :
            /\ pc[t] \in {"recording", "committing"} <=> ~IsNone(obs[t])
            /\ ~IsNone(obs[t]) =>
                  /\ ~IsNone(response[t])
                  /\ Val(obs[t]).http_status = Val(response[t]).http_status
                  /\ Val(obs[t]).response_time = Val(response[t]).response_time
                  /\ Val(obs[t]).content \in Bodies)
    /\ [][\A t \in Tasks :
            /\ obs'[t] # obs[t] /\ ~IsNone(obs'[t])
                  => pc[t] = "reading" /\ IsNone(obs[t]) /\ response'[t] = response[t]
            /\ pc'[t] = "recording" /\ pc[t] # "recording" => pc[t] = "reading"
            /\ result'[t] # result[t] /\ ~IsNone(result'[t])
                  => /\ pc[t] \in {"recording", "committing"}
                     /\ ~IsNone(obs[t])
                     /\ IsNone(result[t])]_vars

\* C18 witness: a task that fetched a response of status 500 and read its
\* body has inserted its observation, which holds that status and the
\* response time measured.
C18_Witness ==
    \E t \in Tasks :
        /\ pc[t] = "committing"
        /\ Val(response[t]).http_status = 500
        /\ Val(obs[t]).http_status = 500
        /\ Val(obs[t]).response_time = 2

\* C19 as claimed (the code violates it): when a task has ended by a
\* cancellation or an interrupt, no write is left between its insert and its
\* commit.
C19_NoHalfDoneWrite ==
    (\E t \in Tasks : pc[t] = "done" /\ exc[t] \in {"CancelledError", "KeyboardInterrupt"})
        => conn # "intrans"

\* C19 amended: a CancelledError reaches a task at an await only, so a write is
\* between its insert and its commit only while its task runs write_to_db,
\* an interrupt requested meanwhile waiting for it; or after a
\* KeyboardInterrupt raised inside write_to_db itself, which ended that task
\* and left the insert uncommitted.
C19_CancelOnlyAtAwait ==
    /\ conn = "intrans" =>
          \/ running # 0 /\ pc[running] = "committing"
          \/ \E t \in Tasks : pc[t] = "done" /\ exc[t] = "KeyboardInterrupt"
    /\ \A t \in Tasks :
          pc[t] \in {"recording", "committing"} => running = t /\ exc[t] = "none"

\* C19 witness: an interrupt was requested while a task was between its
\* insert and its commit, and the task, not cancelled, is still there.
C19_Witness ==
    /\ interrupted
    /\ running # 0
    /\ pc[running] = "committing"
    /\ conn = "intrans"
    /\ Len(task_args) >= 2

InWrite(t) == pc[t] \in {"recording", "committing"}

\* C20: at most one task is inside write_to_db, it is the running one, and
\* from the entry of write_to_db to its end no other task changes in any way.
C20_WritesMutuallyExclusive ==
    /\ [](/\ \A t, u \in Tasks : InWrite(t) /\ InWrite(u) => t = u
          /\ \A t \in Tasks : InWrite(t) <=> running = t)
    /\ [][\A t \in Tasks :
            InWrite(t) /\ InWrite(t)' =>
                \A u \in Tasks \ {t} :
                    /\ pc'[u] = pc[u] /\ exc'[u] = exc[u]
                    /\ obs'[u] = obs[u] /\ result'[u] = result[u]
                    /\ response'[u] = response[u]]_vars

\* C20 witness: one task is between its insert and its commit while another
\* task, whose response has arrived, waits to read its body.
C20_Witness ==
    \E t, u \in Tasks :
        /\ t # u
        /\ pc[t] = "committing" /\ conn = "intrans" /\ running = t
        /\ pc[u] = "reading"

====
